---- MODULE Spec2Model ----
(***************************************************************************)
(* A model of multical/tables.py: sparse tables of poses and points, the   *)
(* pairwise overlap graph, pose chaining, the rig/camera factorisation and *)
(* the reprojection diagnostics.                                           *)
(*                                                                         *)
(* Arrays keep the 0-based indexing of the source: an array of length n is *)
(* a function on 0..n-1.  A 4x4 rigid transform is modelled by a 3x3       *)
(* permutation matrix (the homogeneous embedding of a signed rotation with *)
(* zero translation), written as the tuple of its column images, so that   *)
(* @, inv and eye are exact and @ is not commutative.                      *)
(***************************************************************************)
EXTENDS Integers, Sequences, FiniteSets, TLC

VARIABLES pc, args, ret, raised, aligned

vars == <<pc, args, ret, raised, aligned>>

(* ---------------------------------------------------------------- bounds *)
MaxN == 3
MaxIds == 2
MaxVal == 2
NumCams == 3
NumFrames == 2
MaxValid == 3
MaxPoints == 2
MaxTotalPoints == 5
MaxAxisLen == 3
MaxRank == 2
MaxDim == 2
MaxValidMul == 2
NumPts == 2

(* ------------------------------------------------------------- utilities *)
Range(n) == 0 .. (n - 1)

NoResult == [none |-> TRUE]

Arrays(n, S) == [Range(n) -> S]

Orders(k) == {o \in [Range(k) -> Range(k)] : \A a, b \in Range(k) : o[a] = o[b] => a = b}

Min(a, b) == IF a <= b THEN a ELSE b

RECURSIVE SumTo(_, _)
SumTo(f, m) == IF m = 0 THEN 0 ELSE SumTo(f, m - 1) + f[m - 1]

RECURSIVE SetSum(_, _)
SetSum(S, f) ==
  IF S = {} THEN 0
  ELSE LET x == CHOOSE y \in S : TRUE IN f[x] + SetSum(S \ {x}, f)

(* ------------------------------------------------------------ transforms *)
\* np.eye(4)
Eye == <<1, 2, 3>>

\* a @ b
MatMul(a, b) == [i \in 1 .. 3 |-> a[b[i]]]

\* np.linalg.inv(a)
Inv(a) == [i \in 1 .. 3 |-> CHOOSE j \in 1 .. 3 : a[j] = i]

\* a rotation and a reflection, which do not commute
MovedPoses == {<<2, 3, 1>>, <<2, 1, 3>>}

TransformList ==
  <<Eye, <<2, 3, 1>>, <<2, 1, 3>>, <<3, 1, 2>>, <<1, 3, 2>>, <<3, 2, 1>>>>

\* the rig the detections are taken of: the pose of the board seen by camera
\* cam in frame frame is CameraPose(cam) @ RigPose(frame)
CameraPose(cam) == TransformList[(cam % 6) + 1]

RigPose(frame) == TransformList[((2 * frame) % 6) + 1]

TruePose(ix) == MatMul(CameraPose(ix[1]), RigPose(ix[2]))

\* a single-view solve that went wrong
OutlierPose(ix) == MatMul(<<3, 2, 1>>, TruePose(ix))

(* ---------------------------------------------------------------- tables *)
\* A Table is a record: `shape` is its leading shape, every other field an
\* array over the index tuples of that shape.  A struct is a Table of shape <<>>.
RECURSIVE Indices(_)
Indices(shape) ==
  IF shape = <<>> THEN {<<>>}
  ELSE {<<i>> \o rest : i \in Range(Head(shape)), rest \in Indices(Tail(shape))}

RemoveAt(s, axis) == [k \in 1 .. (Len(s) - 1) |-> IF k <= axis THEN s[k] ELSE s[k + 1]]

InsertAt(s, axis, i) ==
  [k \in 1 .. (Len(s) + 1) |->
     IF k <= axis THEN s[k] ELSE IF k = axis + 1 THEN i ELSE s[k - 1]]

\* table._index_select(i, axis=axis)
IndexSelect(t, i, axis) ==
  LET shp == RemoveAt(t.shape, axis)
  IN  [f \in DOMAIN t |->
         IF f = "shape" THEN shp
         ELSE [ix \in Indices(shp) |-> t[f][InsertAt(ix, axis, i)]]]

invalid_pose ==
  [shape |-> <<>>, poses |-> [ix \in {<<>>} |-> Eye],
   num_points |-> [ix \in {<<>>} |-> 0], valid_poses |-> [ix \in {<<>>} |-> FALSE]]

valid_pose(t) ==
  [shape |-> <<>>, poses |-> [ix \in {<<>>} |-> t], valid_poses |-> [ix \in {<<>>} |-> TRUE]]

\* make_pose_table: the entries in V carry a solved pose and its point count,
\* every other entry is invalid_pose
PoseTable(C, F, V, ps, np) ==
  [shape |-> <<C, F>>,
   poses |-> [ix \in Indices(<<C, F>>) |-> IF ix \in V THEN ps[ix] ELSE Eye],
   num_points |-> [ix \in Indices(<<C, F>>) |-> IF ix \in V THEN np[ix] ELSE 0],
   valid_poses |-> [ix \in Indices(<<C, F>>) |-> ix \in V]]

ValidSets(C, F) == {V \in SUBSET Indices(<<C, F>>) : Cardinality(V) <= MaxValid}

(* ------------------------------------------------------- pattern_overlaps *)
\* faulty variant: the first row alone decides validity and weight
PairOverlapOneSided(row_i, row_j) ==
  LET m == row_i.shape[1]
      prod == [k \in Range(m) |->
                 (IF row_i.valid_poses[<<k>>] THEN 1 ELSE 0) * row_i.num_points[<<k>>]]
  IN  SumTo(prod, m)

\* np.sum(has_pose.astype(np.float32) * weight) for rows i < j
PairOverlap(row_i, row_j) ==
  LET m == row_i.shape[1]
      has_pose == [k \in Range(m) |-> row_i.valid_poses[<<k>>] /\ row_j.valid_poses[<<k>>]]
      weight == [k \in Range(m) |-> Min(row_i.num_points[<<k>>], row_j.num_points[<<k>>])]
      prod == [k \in Range(m) |-> (IF has_pose[k] THEN 1 ELSE 0) * weight[k]]
  IN  SumTo(prod, m)

pattern_overlaps(table, axis) ==
  LET n == table.shape[axis + 1]
      row(i) == IndexSelect(table, i, axis)
  IN  [i \in Range(n) |-> [j \in Range(n) |->
         IF i < j THEN PairOverlap(row(i), row(j))
         ELSE IF j < i THEN PairOverlap(row(j), row(i))
         ELSE 0]]

(* ------------------------------------------------------------ fill_sparse *)
\* dense[ids] = values, the element assignments applied in the order `order`
RECURSIVE Scatter(_, _, _, _, _)
Scatter(dense, ids, values, order, k) ==
  IF k = 0 THEN dense
  ELSE LET d == Scatter(dense, ids, values, order, k - 1)
           p == order[k - 1]
       IN  [d EXCEPT ![ids[p]] = values[p]]

\* NumPy leaves the order of an advanced assignment unspecified: every order
\* of the element assignments is a possible outcome
IndexAssign(dense, ids, values, len) ==
  {Scatter(dense, ids, values, order, len) : order \in Orders(len)}

\* faulty variant: the mask is never set
FillMaskLost(n, ids, len) == [i \in Range(n) |-> FALSE]

FillMask(n, ids, len) == [i \in Range(n) |-> \E p \in Range(len) : ids[p] = i]

fill_sparse(n, values, ids, len) ==
  {[dense |-> d, mask |-> FillMask(n, ids, len)] :
     d \in IndexAssign([i \in Range(n) |-> 0], ids, values, len)}

fill_sparse_tile(n, values, ids, len, tile) ==
  {[dense |-> d, mask |-> FillMask(n, ids, len)] :
     d \in IndexAssign([i \in Range(n) |-> tile], ids, values, len)}

(* ------------------------------------------------- specification SpecFill *)
InitFill ==
  /\ pc = "ready"
  /\ raised = "none"
  /\ aligned = <<>>
  /\ ret = NoResult
  /\ \E n \in 0 .. MaxN, len \in 0 .. MaxIds :
       \E ids \in Arrays(len, Range(n)), values \in Arrays(len, 0 .. MaxVal),
          tile \in 0 .. MaxVal :
         args = [n |-> n, len |-> len, ids |-> ids, values |-> values, tile |-> tile]

FillSparse ==
  /\ pc = "ready"
  /\ \E r \in fill_sparse(args.n, args.values, args.ids, args.len) : ret' = r
  /\ pc' = "fill_sparse"
  /\ UNCHANGED <<args, raised, aligned>>

FillSparseTile ==
  /\ pc = "ready"
  /\ \E r \in fill_sparse_tile(args.n, args.values, args.ids, args.len, args.tile) :
       ret' = r
  /\ pc' = "fill_sparse_tile"
  /\ UNCHANGED <<args, raised, aligned>>

NextFill == FillSparse \/ FillSparseTile

SpecFill == InitFill /\ [][NextFill]_vars

FillDefault == IF pc = "fill_sparse" THEN 0 ELSE args.tile

\* C1: after fill_sparse / fill_sparse_tile with every id in 0..n-1, the dense
\* array at each id holds the entry of values at a position of that id and the
\* mask is true there; everywhere else the mask is false and the dense value
\* is the default (zero, or the tile); empty ids included.
C1_FillSparse ==
  pc \in {"fill_sparse", "fill_sparse_tile"} =>
    /\ DOMAIN ret.dense = Range(args.n)
    /\ DOMAIN ret.mask = Range(args.n)
    /\ \A i \in Range(args.n) :
         IF \E p \in Range(args.len) : args.ids[p] = i
         THEN /\ ret.mask[i] = TRUE
              /\ \E p \in Range(args.len) :
                   args.ids[p] = i /\ ret.dense[i] = args.values[p]
         ELSE /\ ret.mask[i] = FALSE
              /\ ret.dense[i] = FillDefault

\* a tile fill that overwrote one id with a value differing from the tile and
\* from zero, and left another index at the tile default
C1_Witness ==
  /\ pc = "fill_sparse_tile"
  /\ args.tile # 0
  /\ \E i, j \in Range(args.n) :
       /\ ret.mask[i] /\ ret.dense[i] # args.tile /\ ret.dense[i] # 0
       /\ ~ret.mask[j] /\ ret.dense[j] = args.tile

(* ---------------------------------------------- specification SpecOverlap *)
\* the point counts of k table entries, at most MaxPoints each and
\* MaxTotalPoints together; an entry without points has no pose
RECURSIVE PointCounts(_, _)
PointCounts(k, budget) ==
  IF k = 0 THEN {<<>>}
  ELSE UNION {{Append(c, v) : c \in PointCounts(k - 1, budget - v)} :
              v \in 0 .. Min(MaxPoints, budget)}

InitOverlap ==
  /\ pc = "ready"
  /\ raised = "none"
  /\ aligned = <<>>
  /\ ret = NoResult
  /\ \E counts \in PointCounts(NumCams * NumFrames, MaxTotalPoints) :
       LET np == [ix \in Indices(<<NumCams, NumFrames>>) |->
                    counts[ix[1] * NumFrames + ix[2] + 1]]
           V == {ix \in Indices(<<NumCams, NumFrames>>) : np[ix] > 0}
       IN  args = [table |-> PoseTable(NumCams, NumFrames, V, [ix \in V |-> TruePose(ix)], np),
                   axis |-> 0]

PatternOverlaps ==
  /\ pc = "ready"
  /\ \E axis \in 0 .. 1 :
       /\ args' = [args EXCEPT !.axis = axis]
       /\ ret' = [overlaps |-> pattern_overlaps(args.table, axis)]
  /\ pc' = "pattern_overlaps"
  /\ UNCHANGED <<raised, aligned>>

NextOverlap == PatternOverlaps

SpecOverlap == InitOverlap /\ [][NextOverlap]_vars

\* the entry of the table at node i of the chosen axis and position k of the other
NodeIx(axis, i, k) == IF axis = 0 THEN <<i, k>> ELSE <<k, i>>

OtherLen(table, axis) == table.shape[2 - axis]

SharedFrames(table, axis, i, j) ==
  {k \in Range(OtherLen(table, axis)) :
     table.valid_poses[NodeIx(axis, i, k)] /\ table.valid_poses[NodeIx(axis, j, k)]}

SharedWeight(table, axis, i, j) ==
  SetSum(SharedFrames(table, axis, i, j),
         [k \in Range(OtherLen(table, axis)) |->
            Min(table.num_points[NodeIx(axis, i, k)], table.num_points[NodeIx(axis, j, k)])])

can_broadcast_strict(shape1, shape2) ==
  /\ Len(shape1) = Len(shape2)
  /\ \A k \in 1 .. Len(shape1) : shape1[k] = shape2[k] \/ shape1[k] = 1

can_broadcast(shape1, shape2) ==
  /\ Len(shape1) = Len(shape2)
  /\ \A k \in 1 .. Len(shape1) :
       shape1[k] = shape2[k] \/ shape1[k] = 1 \/ shape2[k] = 1

\* NumPy broadcasting of two shapes of equal rank that can_broadcast
BroadcastShape(shape1, shape2) ==
  [k \in 1 .. Len(shape1) |-> IF shape1[k] = 1 THEN shape2[k] ELSE shape1[k]]

\* the entry of an array of shape `shape` that the broadcast entry ix reads
BroadcastIx(shape, ix) == [k \in 1 .. Len(shape) |-> IF shape[k] = 1 THEN 0 ELSE ix[k]]

\* faulty variant: | in place of &
ValidOr(a, b) == a \/ b

\* table1.valid_poses & table2.valid_poses, elementwise
ValidAnd(a, b) == a /\ b

multiply_tables(table1, table2) ==
  IF ~can_broadcast(table1.shape, table2.shape)
  THEN [raised |-> "AssertionError", ret |-> NoResult]
  ELSE LET shp == BroadcastShape(table1.shape, table2.shape)
       IN  [raised |-> "none",
            ret |-> [shape |-> shp,
                     poses |-> [ix \in Indices(shp) |->
                                  MatMul(table1.poses[BroadcastIx(table1.shape, ix)],
                                         table2.poses[BroadcastIx(table2.shape, ix)])],
                     valid_poses |-> [ix \in Indices(shp) |->
                                  ValidAnd(table1.valid_poses[BroadcastIx(table1.shape, ix)],
                                           table2.valid_poses[BroadcastIx(table2.shape, ix)])]]]

\* np.broadcast_to(t1, t2.shape) accepts an axis of t1 only if it is 1 or equal
broadcast_to(table1, table2) ==
  IF ~can_broadcast(table1.shape, table2.shape)
  THEN [raised |-> "AssertionError", ret |-> NoResult]
  ELSE IF \E k \in 1 .. Len(table1.shape) :
            table1.shape[k] # 1 /\ table1.shape[k] # table2.shape[k]
  THEN [raised |-> "ValueError", ret |-> NoResult]
  ELSE [raised |-> "none",
        ret |-> [f \in DOMAIN table1 |->
                   IF f = "shape" THEN table2.shape
                   ELSE [ix \in Indices(table2.shape) |->
                           table1[f][BroadcastIx(table1.shape, ix)]]]]

\* table._map(partial(np.expand_dims, axis=dims))
expand(table, dims) ==
  LET shp == InsertAt(table.shape, dims, 1)
  IN  [f \in DOMAIN table |->
         IF f = "shape" THEN shp
         ELSE [ix \in Indices(shp) |-> table[f][RemoveAt(ix, dims)]]]

multiply_expand(table1, dims1, table2, dims2) ==
  multiply_tables(expand(table1, dims1), expand(table2, dims2))

expand_poses(estimates) == multiply_expand(estimates.camera, 1, estimates.rig, 0)

(* -------------------------------------------------- specification SpecMul *)
Shapes == {<<a>> : a \in 1 .. MaxDim} \cup {<<a, b>> : a, b \in 1 .. MaxDim}

IxSum(ix) == SumTo([k \in Range(Len(ix)) |-> ix[k + 1]], Len(ix))

SolvedAt(ix) == IF IxSum(ix) % 2 = 0 THEN <<2, 3, 1>> ELSE <<2, 1, 3>>

\* the pose tables of a shape with the entries in V valid
MaskedTable(shp, V) ==
  [shape |-> shp,
   poses |-> [ix \in Indices(shp) |-> IF ix \in V THEN SolvedAt(ix) ELSE Eye],
   valid_poses |-> [ix \in Indices(shp) |-> ix \in V]]

MaskedTables ==
  {MaskedTable(shp, V) : shp \in Shapes,
     V \in {W \in SUBSET Indices(<<MaxDim, MaxDim>>) \cup SUBSET Indices(<<MaxDim>>) :
              Cardinality(W) <= MaxValidMul}}

InitMul ==
  /\ pc = "ready"
  /\ raised = "none"
  /\ aligned = <<>>
  /\ ret = NoResult
  /\ \E t1, t2 \in MaskedTables : args = [table1 |-> t1, table2 |-> t2]

MultiplyTables ==
  /\ pc = "ready"
  /\ LET r == multiply_tables(args.table1, args.table2)
     IN  raised' = r.raised /\ ret' = r.ret
  /\ pc' = "multiply_tables"
  /\ UNCHANGED <<args, aligned>>

BroadcastTo ==
  /\ pc = "ready"
  /\ LET r == broadcast_to(args.table1, args.table2)
     IN  raised' = r.raised /\ ret' = r.ret
  /\ pc' = "broadcast_to"
  /\ UNCHANGED <<args, aligned>>

\* estimates.camera and estimates.rig are tables over one axis
ExpandPoses ==
  /\ pc = "ready"
  /\ Len(args.table1.shape) = 1 /\ Len(args.table2.shape) = 1
  /\ LET r == expand_poses([camera |-> args.table1, rig |-> args.table2])
     IN  raised' = r.raised /\ ret' = r.ret
  /\ pc' = "expand_poses"
  /\ UNCHANGED <<args, aligned>>

NextMul == MultiplyTables \/ BroadcastTo \/ ExpandPoses

SpecMul == InitMul /\ [][NextMul]_vars

(* ----------------------------------------------- specification SpecShapes *)
RECURSIVE ShapesOfRank(_)
ShapesOfRank(r) ==
  IF r = 0 THEN {<<>>}
  ELSE {<<a>> \o shp : a \in 1 .. MaxAxisLen, shp \in ShapesOfRank(r - 1)}

InitShapes ==
  /\ pc = "ready"
  /\ raised = "none"
  /\ aligned = <<>>
  /\ ret = NoResult
  /\ \E r1, r2 \in 1 .. MaxRank :
       \E shape1 \in ShapesOfRank(r1), shape2 \in ShapesOfRank(r2) :
         args = [table1 |-> MaskedTable(shape1, Indices(shape1)),
                 table2 |-> MaskedTable(shape2, Indices(shape2))]

NextShapes == MultiplyTables \/ BroadcastTo

SpecShapes == InitShapes /\ [][NextShapes]_vars

\* the two tables multiply_tables received
MulLeft == IF pc = "expand_poses" THEN expand(args.table1, 1) ELSE args.table1

MulRight == IF pc = "expand_poses" THEN expand(args.table2, 0) ELSE args.table2

\* C3: for broadcast-compatible pose tables A and B, every entry of
\* multiply_tables(A, B).valid_poses is valid exactly when both input entries
\* that contribute to it are valid (also through expand_poses).
C3_MaskedCombination ==
  (pc \in {"multiply_tables", "expand_poses"} /\ raised = "none") =>
    /\ \A k \in 1 .. Len(ret.shape) :
         ret.shape[k] = (IF MulLeft.shape[k] >= MulRight.shape[k]
                         THEN MulLeft.shape[k] ELSE MulRight.shape[k])
    /\ DOMAIN ret.valid_poses = Indices(ret.shape)
    /\ \A ix \in Indices(ret.shape) :
         ret.valid_poses[ix] =
           (/\ MulLeft.valid_poses[[k \in 1 .. Len(ix) |->
                                      IF ix[k] < MulLeft.shape[k] THEN ix[k] ELSE 0]]
            /\ MulRight.valid_poses[[k \in 1 .. Len(ix) |->
                                      IF ix[k] < MulRight.shape[k] THEN ix[k] ELSE 0]])

\* a product over a broadcast axis with a valid entry, an entry invalid on the
\* left only and an entry invalid on the right only
C3_Witness ==
  /\ pc = "multiply_tables"
  /\ raised = "none"
  /\ args.table1.shape # args.table2.shape
  /\ \E ix, jx, kx \in Indices(ret.shape) :
       /\ ret.valid_poses[ix]
       /\ ~ret.valid_poses[jx]
       /\ ~MulLeft.valid_poses[BroadcastIx(MulLeft.shape, jx)]
       /\ MulRight.valid_poses[BroadcastIx(MulRight.shape, jx)]
       /\ ~ret.valid_poses[kx]
       /\ MulLeft.valid_poses[BroadcastIx(MulLeft.shape, kx)]
       /\ ~MulRight.valid_poses[BroadcastIx(MulRight.shape, kx)]

\* every axis pair, aligned from the last axis as NumPy does, is equal or has
\* a size of 1
AxisPairsCompatible(shape1, shape2) ==
  \A k \in 0 .. (Min(Len(shape1), Len(shape2)) - 1) :
    LET n1 == shape1[Len(shape1) - k]
        n2 == shape2[Len(shape2) - k]
    IN  n1 = n2 \/ n1 = 1 \/ n2 = 1

\* C10 as stated: the precondition of multiply_tables and broadcast_to fails
\* exactly for the shapes with an axis pair that is neither equal nor has a 1.
C10_AsStated ==
  pc \in {"multiply_tables", "broadcast_to"} =>
    /\ (raised = "AssertionError") <=>
         ~AxisPairsCompatible(args.table1.shape, args.table2.shape)
    /\ raised = "AssertionError" => ret = NoResult

\* C10 amended: the precondition passes exactly for shapes with the same
\* number of axes whose every axis pair is equal or has a size of 1; for all
\* other shapes the call fails with an assertion failure and returns nothing.
C10_Precondition ==
  pc \in {"multiply_tables", "broadcast_to"} =>
    /\ (raised = "AssertionError") <=>
         ~(/\ Len(args.table1.shape) = Len(args.table2.shape)
           /\ AxisPairsCompatible(args.table1.shape, args.table2.shape))
    /\ raised = "AssertionError" => ret = NoResult

\* a call rejected for an unequal axis pair, where the shapes have equal rank
C10_Witness ==
  /\ pc = "multiply_tables"
  /\ raised = "AssertionError"
  /\ ret = NoResult
  /\ Len(args.table1.shape) = 2 /\ Len(args.table2.shape) = 2
  /\ ~AxisPairsCompatible(args.table1.shape, args.table2.shape)

(* ----------------------------------------------------- reprojection error *)
\* image points whose pairwise distances are whole numbers
ImagePoints == {<<0, 0>>, <<3, 0>>, <<0, 4>>}

\* np.linalg.norm(v, axis=-1) of a point difference
Norm(v) == CHOOSE r \in 0 .. (v[1] * v[1] + v[2] * v[2]) : r * r = v[1] * v[1] + v[2] * v[2]

\* faulty variant: the masked errors are not zeroed
Unmasked(err, mask) == err

\* error[~mask] = 0
Masked(err, mask) == IF mask THEN err ELSE 0

reprojection_error(points1, points2) ==
  LET ixs == Indices(points1.shape)
      mask == [ix \in ixs |-> points1.valid_points[ix] /\ points2.valid_points[ix]]
      error == [ix \in ixs |->
                  Norm(<<points1.points[ix][1] - points2.points[ix][1],
                         points1.points[ix][2] - points2.points[ix][2]>>)]
  IN  [error |-> [ix \in ixs |-> Masked(error[ix], mask[ix])], mask |-> mask]

\* errors[mask] for arrays over one axis of length n: the entries at the true
\* positions of the mask, in index order
RECURSIVE BoolIndex(_, _, _)
BoolIndex(arr, mask, n) ==
  IF n = 0 THEN <<>>
  ELSE IF mask[<<n - 1>>] THEN Append(BoolIndex(arr, mask, n - 1), arr[<<n - 1>>])
  ELSE BoolIndex(arr, mask, n - 1)

valid_reprojection_error(points1, points2) ==
  LET r == reprojection_error(points1, points2)
  IN  BoolIndex(r.error, r.mask, points1.shape[1])

(* ----------------------------------------------- specification SpecReproj *)
PointTables ==
  {[shape |-> <<NumPts>>, points |-> ps, valid_points |-> vs] :
     ps \in [Indices(<<NumPts>>) -> ImagePoints],
     vs \in [Indices(<<NumPts>>) -> BOOLEAN]}

InitReproj ==
  /\ pc = "ready"
  /\ raised = "none"
  /\ aligned = <<>>
  /\ ret = NoResult
  /\ \E p1, p2 \in PointTables : args = [points1 |-> p1, points2 |-> p2]

ReprojectionError ==
  /\ pc = "ready"
  /\ ret' = reprojection_error(args.points1, args.points2)
  /\ pc' = "reprojection_error"
  /\ UNCHANGED <<args, raised, aligned>>

ValidReprojectionError ==
  /\ pc = "ready"
  /\ ret' = [errors |-> valid_reprojection_error(args.points1, args.points2)]
  /\ pc' = "valid_reprojection_error"
  /\ UNCHANGED <<args, raised, aligned>>

NextReproj == ReprojectionError \/ ValidReprojectionError

SpecReproj == InitReproj /\ [][NextReproj]_vars

BothValid(ix) == args.points1.valid_points[ix] /\ args.points2.valid_points[ix]

Distance(ix) ==
  LET dx == args.points1.points[ix][1] - args.points2.points[ix][1]
      dy == args.points1.points[ix][2] - args.points2.points[ix][2]
  IN  CHOOSE r \in 0 .. 5 : r * r = dx * dx + dy * dy

\* the index of the q-th entry valid in both tables
NthBothValid(q) ==
  CHOOSE i \in Range(NumPts) :
    /\ BothValid(<<i>>)
    /\ Cardinality({j \in Range(i) : BothValid(<<j>>)}) = q - 1

\* C4: reprojection_error returns the mask points1.valid_points AND
\* points2.valid_points and an error that is 0 wherever the mask is false (and
\* the distance where it is true); for identical tables every error is 0 and
\* the mask is the input validity mask; valid_reprojection_error returns the
\* errors at the true mask entries, one per true entry.
C4_ReprojectionError ==
  /\ pc = "reprojection_error" =>
       /\ \A ix \in Indices(<<NumPts>>) :
            /\ ret.mask[ix] = BothValid(ix)
            /\ ~ret.mask[ix] => ret.error[ix] = 0
            /\ ret.mask[ix] => ret.error[ix] = Distance(ix)
       /\ args.points1 = args.points2 =>
            /\ \A ix \in Indices(<<NumPts>>) : ret.error[ix] = 0
            /\ ret.mask = args.points1.valid_points
  /\ pc = "valid_reprojection_error" =>
       /\ Len(ret.errors) = Cardinality({i \in Range(NumPts) : BothValid(<<i>>)})
       /\ \A q \in 1 .. Len(ret.errors) : ret.errors[q] = Distance(<<NthBothValid(q)>>)

\* an error array with a masked entry whose points differ and an unmasked
\* entry with a nonzero error
C4_Witness ==
  /\ pc = "reprojection_error"
  /\ \E ix, jx \in Indices(<<NumPts>>) :
       /\ ~ret.mask[ix]
       /\ args.points1.points[ix] # args.points2.points[ix]
       /\ ret.error[ix] = 0
       /\ ret.mask[jx]
       /\ ret.error[jx] = 5

(* ------------------------------------------------------ robust alignment *)
\* matrix.align_transforms_robust(m1, m2)[0] for pose arrays over one axis of
\* length m: a transform t with t @ m2[k] = m1[k] for one of the samples k (all
\* of them when the samples agree); there is no estimate of zero samples
align_transforms_robust(m1, m2, m) ==
  {MatMul(m1[<<k>>], Inv(m2[<<k>>])) : k \in Range(m)}

\* np.nonzero(mask)[0] for a mask over one axis of length n, in index order
RECURSIVE NonZero(_, _)
NonZero(mask, n) ==
  IF n = 0 THEN <<>>
  ELSE IF mask[<<n - 1>>] THEN Append(NonZero(mask, n - 1), n - 1)
  ELSE NonZero(mask, n - 1)

\* row._index[valid]
IndexArray(row, valid) ==
  [f \in DOMAIN row |->
     IF f = "shape" THEN <<Len(valid)>>
     ELSE [ix \in Indices(<<Len(valid)>>) |-> row[f][<<valid[ix[1] + 1]>>]]]

\* faulty variant: the mask of the second row is ignored
CommonMaskFirstOnly(a, b) == a

\* row1[mask_key] & row2[mask_key]
CommonMask(a, b) == a /\ b

common_entries(row1, row2) ==
  LET n == row1.shape[1]
      valid == NonZero([ix \in Indices(<<n>>) |->
                          CommonMask(row1.valid_poses[ix], row2.valid_poses[ix])], n)
  IN  [row1 |-> IndexArray(row1, valid), row2 |-> IndexArray(row2, valid), valid |-> valid]

\* table._extend(poses=np.linalg.inv(table.poses))
inverse(table) ==
  [table EXCEPT !.poses = [ix \in DOMAIN table.poses |-> Inv(table.poses[ix])]]

\* the possible outcomes of relative_between: the returned struct and the
\* samples handed to align_transforms_robust (src: where they came from)
relative_between(table1, table2) ==
  LET c == common_entries(table1, table2)
  IN  IF Len(c.valid) = 0
      THEN {[ret |-> invalid_pose, calls |-> <<>>]}
      ELSE {[ret |-> valid_pose(t),
             calls |-> <<[m1 |-> c.row1.poses, m2 |-> c.row2.poses, src |-> c.valid]>>] :
              t \in align_transforms_robust(c.row1.poses, c.row2.poses, Len(c.valid))}

relative_between_inv(table1, table2) ==
  {[ret |-> inverse(r.ret), calls |-> r.calls] :
     r \in relative_between(inverse(table1), inverse(table2))}

(* -------------------------------------------------- specification SpecRel *)
\* pose tables over one axis: an entry is valid with a pose other than the
\* identity, or the invalid placeholder
RowTables(n) ==
  {[shape |-> <<n>>, poses |-> e, valid_poses |-> [ix \in Indices(<<n>>) |-> e[ix] # Eye]] :
     e \in [Indices(<<n>>) -> MovedPoses \cup {Eye}]}

InitRel ==
  /\ pc = "ready"
  /\ raised = "none"
  /\ aligned = <<>>
  /\ ret = NoResult
  /\ \E t1, t2 \in RowTables(NumCams) : args = [table1 |-> t1, table2 |-> t2]

RelativeBetween ==
  /\ pc = "ready"
  /\ \E r \in relative_between(args.table1, args.table2) :
       ret' = r.ret /\ aligned' = r.calls
  /\ pc' = "relative_between"
  /\ UNCHANGED <<args, raised>>

RelativeBetweenInv ==
  /\ pc = "ready"
  /\ \E r \in relative_between_inv(args.table1, args.table2) :
       ret' = r.ret /\ aligned' = r.calls
  /\ pc' = "relative_between_inv"
  /\ UNCHANGED <<args, raised>>

NextRel == RelativeBetween \/ RelativeBetweenInv

SpecRel == InitRel /\ [][NextRel]_vars

ValidInBoth == {i \in Range(NumCams) : args.table1.valid_poses[<<i>>] /\ args.table2.valid_poses[<<i>>]}

\* C8: relative_between returns the invalid_pose placeholder exactly when no
\* entry is valid in both tables; otherwise (one common entry included) it
\* returns a valid pose aligning the entries valid in both, the alignment is
\* handed exactly those entries, and it is never handed zero samples.
C8_RelativeBetween ==
  pc = "relative_between" =>
    /\ (ret = invalid_pose) <=> (ValidInBoth = {})
    /\ ValidInBoth = {} => aligned = <<>> /\ ~ret.valid_poses[<<>>] /\ ret.poses[<<>>] = Eye
    /\ ValidInBoth # {} =>
         /\ ret.valid_poses[<<>>]
         /\ Len(aligned) = 1
         /\ {aligned[1].src[k] : k \in 1 .. Len(aligned[1].src)} = ValidInBoth
         /\ Len(aligned[1].src) = Cardinality(ValidInBoth)
         /\ \A k \in 1 .. Len(aligned[1].src) :
              /\ aligned[1].m1[<<k - 1>>] = args.table1.poses[<<aligned[1].src[k]>>]
              /\ aligned[1].m2[<<k - 1>>] = args.table2.poses[<<aligned[1].src[k]>>]
         /\ \E i \in ValidInBoth :
              MatMul(ret.poses[<<>>], args.table2.poses[<<i>>]) = args.table1.poses[<<i>>]
    /\ \A c \in 1 .. Len(aligned) : Len(aligned[c].src) > 0

\* a valid result from exactly one common entry, with another entry valid in
\* the first table only whose pose the result does not align
C8_Witness ==
  /\ pc = "relative_between"
  /\ Cardinality(ValidInBoth) = 1
  /\ ret.valid_poses[<<>>]
  /\ \E i \in Range(NumCams) :
       /\ args.table1.valid_poses[<<i>>] /\ ~args.table2.valid_poses[<<i>>]
       /\ MatMul(ret.poses[<<>>], args.table2.poses[<<i>>]) # args.table1.poses[<<i>>]

(* ------------------------------------------------------------ Table.stack *)
\* Table.stack(items): the structs of a list stacked along a new leading
\* axis; stacking fails when their field sets or shapes differ
TableStack(items) ==
  IF \E a, b \in 1 .. Len(items) :
       DOMAIN items[a] # DOMAIN items[b] \/ items[a].shape # items[b].shape
  THEN [raised |-> "StackError", ret |-> NoResult]
  ELSE LET shp == <<Len(items)>> \o items[1].shape
       IN  [raised |-> "none",
            ret |-> [f \in DOMAIN items[1] |->
                       IF f = "shape" THEN shp
                       ELSE [ix \in Indices(shp) |-> items[ix[1] + 1][f][Tail(ix)]]]]

(* ------------------------------------------------------------ pose chainer *)
RowSum(overlaps, n, i) == SumTo(overlaps[i], n)

\* the ways to grow the tree by edges of nonzero overlap from a reached node
\* to an unreached one until no such edge is left, parents before children
RECURSIVE GrowPairs(_, _, _, _)
GrowPairs(overlaps, n, reached, pairs) ==
  LET edges == {e \in Range(n) \X Range(n) :
                  e[1] \in reached /\ e[2] \notin reached /\ overlaps[e[1]][e[2]] > 0}
  IN  IF edges = {} THEN {pairs}
      ELSE UNION {GrowPairs(overlaps, n, reached \cup {e[2]}, Append(pairs, e)) : e \in edges}

\* graph.select_pairs(overlaps, hop_penalty): a master of maximal total overlap
\* and a tree of parent -> child edges over the nodes reachable from it; which
\* of the trees the hop penalty prefers is left open, so every tree is possible
select_pairs(overlaps, n) ==
  UNION {{[master |-> m, pairs |-> ps] : ps \in GrowPairs(overlaps, n, {m}, <<>>)} :
         m \in {i \in Range(n) :
                 \A j \in Range(n) : RowSum(overlaps, n, i) >= RowSum(overlaps, n, j)}}

\* the possible estimates of one edge and the samples they were aligned on:
\* the poses of nodes i and j at every position of the other axis
estimate_transform(table, i, j, axis) ==
  LET poses_i == IndexSelect(table, i, axis).poses
      poses_j == IndexSelect(table, j, axis).poses
      m == table.shape[2 - axis]
  IN  {[t |-> t,
        call |-> [m1 |-> poses_i, m2 |-> poses_j, src |-> [k \in 1 .. m |-> k - 1],
                  edge |-> <<i, j>>]] :
         t \in align_transforms_robust(poses_i, poses_j, m)}

\* sorted(pose_dict) as an array
SortedKeys(S) ==
  [k \in Range(Cardinality(S)) |->
     CHOOSE x \in S : Cardinality({y \in S : y < x}) = k]

ZeroMatrix == <<0, 0, 0>>

\* faulty variant: a zero matrix as the default in place of the identity
fill_poses_zeros(pose_dict, n) ==
  LET valid_ids == SortedKeys(DOMAIN pose_dict)
      len == Cardinality(DOMAIN pose_dict)
      pose_table == [k \in Range(len) |-> pose_dict[valid_ids[k]]]
  IN  {[shape |-> <<n>>,
        poses |-> [ix \in Indices(<<n>>) |-> r.dense[ix[1]]],
        valid_poses |-> [ix \in Indices(<<n>>) |-> r.mask[ix[1]]]] :
         r \in fill_sparse_tile(n, pose_table, valid_ids, len, ZeroMatrix)}

fill_poses(pose_dict, n) ==
  LET valid_ids == SortedKeys(DOMAIN pose_dict)
      len == Cardinality(DOMAIN pose_dict)
      pose_table == [k \in Range(len) |-> pose_dict[valid_ids[k]]]
  IN  {[shape |-> <<n>>,
        poses |-> [ix \in Indices(<<n>>) |-> r.dense[ix[1]]],
        valid_poses |-> [ix \in Indices(<<n>>) |-> r.mask[ix[1]]]] :
         r \in fill_sparse_tile(n, pose_table, valid_ids, len, Eye)}

\* faulty variant: the edge transform on the right of the parent pose
ComposeChildRight(t, parent_pose) == MatMul(parent_pose, t)

\* t @ pose_dict[parent]
ComposeChild(t, parent_pose) == MatMul(t, parent_pose)

\* the loop over the first k pairs: the pose_dict, the transform of each edge
\* and the alignment calls made
RECURSIVE WalkPairs(_, _, _, _, _)
WalkPairs(table, axis, master, pairs, k) ==
  IF k = 0 THEN {[pose_dict |-> [x \in {master} |-> Eye], ts |-> <<>>, calls |-> <<>>]}
  ELSE LET parent == pairs[k][1]
           child == pairs[k][2]
       IN  {[pose_dict |-> [x \in DOMAIN w.pose_dict \cup {child} |->
                              IF x = child THEN ComposeChild(e.t, w.pose_dict[parent])
                              ELSE w.pose_dict[x]],
             ts |-> Append(w.ts, e.t),
             calls |-> Append(w.calls, e.call)] :
              w \in WalkPairs(table, axis, master, pairs, k - 1),
              e \in estimate_transform(table, parent, child, axis)}

estimate_relative_poses(table, axis) ==
  LET n == table.shape[axis + 1]
      overlaps == pattern_overlaps(table, axis)
  IN  UNION {UNION {{[table |-> tb, master |-> sel.master, pairs |-> sel.pairs,
                      ts |-> w.ts, calls |-> w.calls] :
                       tb \in fill_poses(w.pose_dict, n)} :
                    w \in WalkPairs(table, axis, sel.master, sel.pairs, Len(sel.pairs))} :
             sel \in select_pairs(overlaps, n)}

(* ----------------------------------------------------- rig/camera factorizer *)
\* the list comprehension of relative_between_n over the first k positions of
\* the axis: the structs and the alignment calls
RECURSIVE RelativePoses(_, _, _, _, _)
RelativePoses(table1, table2, axis, inv, k) ==
  IF k = 0 THEN {[items |-> <<>>, calls |-> <<>>]}
  ELSE LET poses1 == IndexSelect(table1, k - 1, axis)
           poses2 == IndexSelect(table2, k - 1, axis)
       IN  {[items |-> Append(w.items, r.ret), calls |-> w.calls \o r.calls] :
              w \in RelativePoses(table1, table2, axis, inv, k - 1),
              r \in (IF inv THEN relative_between_inv(poses1, poses2)
                     ELSE relative_between(poses1, poses2))}

relative_between_n(table1, table2, axis, inv) ==
  {[stacked |-> TableStack(w.items), calls |-> w.calls] :
     w \in RelativePoses(table1, table2, axis, inv, table1.shape[axis + 1])}

initialise_poses(pose_table) ==
  UNION {LET expanded == broadcast_to(expand(e.table, 1), pose_table)
         IN  IF expanded.raised # "none"
             THEN {[raised |-> expanded.raised, ret |-> NoResult, calls |-> e.calls]}
             ELSE {[raised |-> r.stacked.raised,
                    ret |-> IF r.stacked.raised = "none"
                            THEN [rig |-> r.stacked.ret, camera |-> e.table]
                            ELSE NoResult,
                    calls |-> e.calls \o r.calls] :
                     r \in relative_between_n(expanded.ret, pose_table, 1, TRUE)} :
         e \in estimate_relative_poses(pose_table, 0)}

(* ------------------------------------------------ specification SpecChain *)
InitPoses ==
  /\ pc = "ready"
  /\ raised = "none"
  /\ aligned = <<>>
  /\ ret = NoResult
  /\ \E V \in ValidSets(NumCams, NumFrames) :
       \E outliers \in SUBSET V :
         args = [table |-> PoseTable(NumCams, NumFrames, V,
                                     [ix \in V |-> IF ix \in outliers THEN OutlierPose(ix)
                                                   ELSE TruePose(ix)],
                                     [ix \in V |-> 1]),
                 axis |-> 0]

EstimateRelativePoses ==
  /\ pc = "ready"
  /\ \E e \in estimate_relative_poses(args.table, args.axis) :
       /\ ret' = [table |-> e.table, master |-> e.master, pairs |-> e.pairs, ts |-> e.ts]
       /\ aligned' = e.calls
  /\ pc' = "estimate_relative_poses"
  /\ UNCHANGED <<args, raised>>

NextChain == EstimateRelativePoses

SpecChain == InitPoses /\ [][NextChain]_vars

(* ------------------------------------------------- specification SpecInit *)
InitialisePoses ==
  /\ pc = "ready"
  /\ \E r \in initialise_poses(args.table) :
       ret' = r.ret /\ raised' = r.raised /\ aligned' = r.calls
  /\ pc' = "initialise_poses"
  /\ UNCHANGED args

NextInit == InitialisePoses

SpecInit == InitPoses /\ [][NextInit]_vars

NumNodes == args.table.shape[args.axis + 1]

Children == {ret.pairs[k][2] : k \in 1 .. Len(ret.pairs)}

EdgeInto(node) == CHOOSE k \in 1 .. Len(ret.pairs) : ret.pairs[k][2] = node

\* the product of the edge transforms on the path from the master to a node,
\* the transform of the last edge leftmost, applied to the identity
RECURSIVE PathProduct(_)
PathProduct(node) ==
  IF node = ret.master THEN Eye
  ELSE MatMul(ret.ts[EdgeInto(node)], PathProduct(ret.pairs[EdgeInto(node)][1]))

\* C5: the pose estimate_relative_poses assigns to every node reached from the
\* master is the product of the edge transforms along its path applied to the
\* identity, each edge's transform on the left of its parent's pose; for a
\* chain master -> A -> B the pose at B is T(A,B) @ T(master,A) @ identity.
C5_ChainComposition ==
  pc = "estimate_relative_poses" =>
    /\ \A k \in 1 .. Len(ret.pairs) :
         /\ ret.table.poses[<<ret.pairs[k][2]>>] = PathProduct(ret.pairs[k][2])
         /\ ret.table.poses[<<ret.pairs[k][2]>>] =
              MatMul(ret.ts[k], ret.table.poses[<<ret.pairs[k][1]>>])
    /\ (Len(ret.pairs) >= 2 /\ ret.pairs[1][2] = ret.pairs[2][1]) =>
         ret.table.poses[<<ret.pairs[2][2]>>] = MatMul(ret.ts[2], MatMul(ret.ts[1], Eye))

\* a chain master -> A -> B whose two edge transforms do not commute
C5_Witness ==
  /\ pc = "estimate_relative_poses"
  /\ Len(ret.pairs) = 2
  /\ ret.pairs[1][1] = ret.master
  /\ ret.pairs[1][2] = ret.pairs[2][1]
  /\ MatMul(ret.ts[2], ret.ts[1]) # MatMul(ret.ts[1], ret.ts[2])
  /\ ret.table.poses[<<ret.pairs[2][2]>>] = MatMul(ret.ts[2], ret.ts[1])

\* C6: the table estimate_relative_poses returns is valid exactly at the master
\* and at the children of the selected edges, the master's pose is the
\* identity, every other node is invalid with the identity placeholder, no
\* error is raised, and with no edge in the overlap graph only the master is
\* valid.
C6_ReachedNodesValid ==
  pc = "estimate_relative_poses" =>
    /\ raised = "none"
    /\ ret.table.shape = <<NumNodes>>
    /\ \A node \in Range(NumNodes) :
         /\ ret.table.valid_poses[<<node>>] <=> (node = ret.master \/ node \in Children)
         /\ (node # ret.master /\ node \notin Children) =>
              (~ret.table.valid_poses[<<node>>] /\ ret.table.poses[<<node>>] = Eye)
    /\ ret.table.poses[<<ret.master>>] = Eye
    /\ (\A i, j \in Range(NumNodes) : SharedFrames(args.table, args.axis, i, j) = {}) =>
         \A node \in Range(NumNodes) :
           ret.table.valid_poses[<<node>>] <=> node = ret.master

\* a table with a child whose pose is not the identity and a node left
\* unreached
C6_Witness ==
  /\ pc = "estimate_relative_poses"
  /\ args.axis = 0
  /\ \E node \in Children : ret.table.valid_poses[<<node>>] /\ ret.table.poses[<<node>>] # Eye
  /\ \E node \in Range(NumCams) :
       /\ node # ret.master
       /\ ~ret.table.valid_poses[<<node>>]
       /\ ret.table.poses[<<node>>] = Eye

\* C7: the transform of an edge (parent, child) is estimated only from the
\* frames in which both the parent and the child have a valid pose.
C7_SharedValidFramesOnly ==
  pc = "estimate_relative_poses" =>
    \A c \in 1 .. Len(aligned) :
      \A k \in 1 .. Len(aligned[c].src) :
        /\ args.table.valid_poses[NodeIx(args.axis, aligned[c].edge[1], aligned[c].src[k])]
        /\ args.table.valid_poses[NodeIx(args.axis, aligned[c].edge[2], aligned[c].src[k])]

FramesWithValidPose ==
  {f \in Range(NumFrames) : \E c \in Range(NumCams) : args.table.valid_poses[<<c, f>>]}

\* C9: for a pose table in which some frames have no valid camera pose and
\* others do, initialise_poses raises no error and returns a rig table with one
\* entry per frame in which every frame without a valid camera pose is invalid.
C9_MissingFramesPropagated ==
  (/\ pc = "initialise_poses"
   /\ FramesWithValidPose # {}
   /\ FramesWithValidPose # Range(NumFrames)) =>
    /\ raised = "none"
    /\ ret.rig.shape = <<NumFrames>>
    /\ \A f \in Range(NumFrames) \ FramesWithValidPose : ~ret.rig.valid_poses[<<f>>]
====
